---------------------------- MODULE Spec2Model ----------------------------
(***************************************************************************)
(* A model of aw632/CAT_Vehicle:                                           *)
(*   src/AndrewNet/andrewnet.py   main (CLI dispatch) and train_model      *)
(*   src/AndrewNet/test.py        test_regime_a                            *)
(*   src/shadows_model/model.py   gen_extra_data                           *)
(*                                                                         *)
(* Numbers the code rounds to 4 decimal places are held as integers in     *)
(* units of 10^-4.  File names are sequences of character codes, compared  *)
(* lexicographically as Python compares strings.                           *)
(***************************************************************************)
EXTENDS Integers, Sequences, FiniteSets

VARIABLES
    fs,       \* the file system: ./checkpoints/, the working directory, ./testing_results/
    pickles,  \* the pickled datasets on disk, by location
    clock,    \* wall clock in ticks, as last read by datetime.now()
    writes,   \* every file written so far, in order: who wrote which path
    pr,       \* per process: the frame of andrewnet.main and train_model
    ta,       \* the frame of one call of test.test_regime_a
    gx        \* the frame of one call of model.gen_extra_data

vars == <<fs, pickles, clock, writes, pr, ta, gx>>

----------------------------------------------------------------------------
(* Bounds of the model *)

MaxImages == 2          \* longest test set
MaxQuery == 1           \* largest query count one attack reports
MaxTrainImages == 17    \* largest training set (4 * 17 = 68 examples: two batches)
MaxShift == 1           \* the shuffles drawn: rotations by 0..MaxShift
MaxLoss == 1            \* largest batch loss
MaxClock == 3           \* last clock tick
TicksPerSecond == 2     \* clock ticks in one second
MaxGenImages == 2       \* gen_extra_data: most input images
MaxEach == 2            \* gen_extra_data: largest n_each

----------------------------------------------------------------------------
(* Helpers *)

Min(a, b) == IF a < b THEN a ELSE b

Max(a, b) == IF a < b THEN b ELSE a

Abs(a) == IF a < 0 THEN 0 - a ELSE a

RECURSIVE Pow10(_)
Pow10(k) == IF k = 0 THEN 1 ELSE 10 * Pow10(k - 1)

\* Python 3 round(): to the nearest multiple of 10^-digits, ties to even.
\* The result is num/den in units of 10^-digits.
Round(num, den, digits) ==
    LET scaled == num * Pow10(digits)
        q == scaled \div den
        r == scaled % den
    IN  IF 2 * r < den THEN q
        ELSE IF 2 * r > den THEN q + 1
        ELSE IF q % 2 = 0 THEN q ELSE q + 1

----------------------------------------------------------------------------
(* Strings.  A Python str is a sequence of character codes (ASCII), so     *)
(* that slicing, concatenation and comparison are computed as Python       *)
(* computes them.                                                          *)

\* "/" and "0"
Slash == <<47>>

Zero == <<48>>

\* "./checkpoints/"
CheckpointsDir == <<46, 47, 99, 104, 101, 99, 107, 112, 111, 105, 110, 116, 115, 47>>

\* ANET_MODEL = "./checkpoints/model"
ANET_MODEL == CheckpointsDir \o <<109, 111, 100, 101, 108>>

\* "./testing_results/"
ResultsDir == <<46, 47, 116, 101, 115, 116, 105, 110, 103, 95, 114, 101, 115, 117, 108, 116, 115, 47>>

\* the working directory: a relative path with no directory part
CwdDir == <<>>

Underscore == <<95>>

DotPth == <<46, 112, 116, 104>>

DotJson == <<46, 106, 115, 111, 110>>

ResultsPrefix == <<114, 101, 115, 117, 108, 116, 115, 95>>

\* a file of another kind lying in a directory: "tmp"
OtherName == <<116, 109, 112>>

\* the digit character of d in 0..9
Digit(d) == Zero[1] + d

\* str(n) for n >= 0, as an f-string formats an int
RECURSIVE str(_)
str(n) == IF n < 10 THEN <<Digit(n)>> ELSE str(n \div 10) \o <<Digit(n % 10)>>

\* the date and the hour and minute fields of '%Y-%m-%d_%H-%M-%S'; the
\* model's clock stays within one minute: "2022-11-03_10-00-"
DateHourMinute == <<50, 48, 50, 50, 45, 49, 49, 45, 48, 51, 95, 49, 48, 45, 48, 48, 45>>

\* strftime('%Y-%m-%d_%H-%M-%S') of an instant `second` whole seconds into
\* the minute: every field zero-padded to a fixed width.
strftime(second) == DateHourMinute \o <<Digit(second \div 10), Digit(second % 10)>>

\* Python's string comparison: the first differing character decides, a
\* proper prefix sorts first.
RECURSIVE LexLess(_, _)
LexLess(a, b) ==
    IF b = <<>> THEN FALSE
    ELSE IF a = <<>> THEN TRUE
    ELSE IF Head(a) # Head(b) THEN Head(a) < Head(b)
    ELSE LexLess(Tail(a), Tail(b))

\* sorted(names): ascending lexicographic order.
RECURSIVE sorted(_)
sorted(S) ==
    IF S = {} THEN <<>>
    ELSE LET least == CHOOSE x \in S : \A y \in S \ {x} : LexLess(x, y)
         IN  <<least>> \o sorted(S \ {least})

\* s[k:] for k >= 0
SliceFrom(s, k) == SubSeq(s, k + 1, Len(s))

\* the position of the last "/" of a path, 0 when it has none
RECURSIVE LastSlash(_)
LastSlash(path) ==
    IF path = <<>> THEN 0
    ELSE IF path[Len(path)] = Slash[1] THEN Len(path)
    ELSE LastSlash(SubSeq(path, 1, Len(path) - 1))

\* the directory part of a path (with its final "/") and the file name
DirName(path) == SubSeq(path, 1, LastSlash(path))

BaseName(path) == SliceFrom(path, LastSlash(path))

\* None (and the empty string): what "not filename" accepts.
None == <<>>

----------------------------------------------------------------------------
(* The file system: directory -> file name -> content.  Relative paths are *)
(* resolved against the working directory, from which ./checkpoints/ and   *)
(* ./testing_results/ are reached.                                         *)

StateDict(writer) == [kind |-> "state_dict", by |-> writer]

OtherFile == [kind |-> "other", by |-> "old"]

NoFiles == [name \in {} |-> OtherFile]

Exists(f, path) ==
    /\ DirName(path) \in DOMAIN f
    /\ BaseName(path) \in DOMAIN f[DirName(path)]

ReadFile(f, path) == f[DirName(path)][BaseName(path)]

\* open(path, "wb") and a write: creates the file or replaces its content
WriteFile(f, path, content) ==
    [f EXCEPT ![DirName(path)] =
        [name \in (DOMAIN @) \cup {BaseName(path)} |->
            IF name = BaseName(path) THEN content ELSE @[name]]]

listdir(f, dir) == DOMAIN f[dir]

\* the checkpoint path train_model builds at `second` for num_epoch epochs
CheckpointPath(second, num_epoch) ==
    ANET_MODEL \o Underscore \o strftime(second) \o Underscore
        \o str(num_epoch) \o DotPth

----------------------------------------------------------------------------
(* test.py: the imports from shadow_utils *)

Threshold == 120

MaskTypes == {"circle", "octagon"}

Labels == {1, 14}

\* judge_mask_type(database, label): the mask group of a class label
judge_mask_type(database, label) ==
    IF label = 14 THEN "octagon" ELSE "circle"

\* POSITION_LIST, MASK_LIST = load_mask()
POSITION_LIST == [g \in MaskTypes |-> <<"positions", g>>]

MASK_LIST == [g \in MaskTypes |-> <<"mask", g>>]

BrightnessLevels == {Threshold - 1, Threshold, Threshold + 1}

\* An image is known by what brightness() measures of it under each mask.
\* The test images are those that are bright enough under one mask and too
\* dark under the other, so that the mask used decides.
Images ==
    {image \in [MaskTypes -> BrightnessLevels] :
        (image["circle"] >= Threshold) # (image["octagon"] >= Threshold)}

brightness(image, mask) == image[mask[2]]

\* attack(image, label, positions) returns (_, success, num_query)
AttackOutcomes == [success : {0, 1}, num_query : 0..MaxQuery]

\* the pickled test sets: {"data": images, "labels": labels}, equally long
TestSets ==
    UNION {[kind : {"dataset"}, data : [1..n -> Images], labels : [1..n -> Labels]] :
             n \in 0..MaxImages}

\* a file that pickle.load rejects
CorruptPickle == [kind |-> "corrupt", data |-> <<>>, labels |-> <<>>]

----------------------------------------------------------------------------
(* test.py: test_regime_a(testing_dataset, device, filename) *)

Digits == 4

\* the frame before any call
TaIdle ==
    [pc |-> "idle", testing_dataset |-> "", device |-> "", filename |-> None,
     given |-> None, loaded |-> None, raised_at |-> "", images |-> <<>>, labels |-> <<>>, index |-> 0,
     num_successes |-> 0, total_num_query |-> 0,
     avg_queries |-> 0, robustness |-> 0, printed |-> FALSE,
     calls |-> <<>>, error |-> ""]

\* the frame on entry, parameters bound; `given` keeps the filename argument,
\* which line 27 overwrites
TaCall(testing_dataset, device, filename) ==
    [TaIdle EXCEPT !.pc = "resolve", !.testing_dataset = testing_dataset,
                   !.device = device, !.filename = filename, !.given = filename]

\* an uncaught exception ends the run; `raised_at` keeps the step that raised
TaRaise(error) ==
    ta' = [ta EXCEPT !.pc = "failed", !.error = error, !.raised_at = ta.pc]

\* lines 25-27: the path the checkpoint is read from
ResolvedFilename(filename, files) ==
    IF filename = None THEN files[Len(files)] ELSE filename

ResolveCheckpoint ==
    /\ ta.pc = "resolve"
    /\ LET files == sorted(listdir(fs, CheckpointsDir))
       IN  IF ta.filename = None /\ files = <<>>
           THEN TaRaise("IndexError")
           ELSE ta' = [ta EXCEPT !.pc = "load_model",
                                 !.filename = ResolvedFilename(ta.filename, files)]
    /\ UNCHANGED <<fs, pickles, clock, writes, pr, gx>>

\* lines 28-36: torch.load(filename) and load_state_dict
LoadModel ==
    /\ ta.pc = "load_model"
    /\ IF ~Exists(fs, ta.filename) THEN TaRaise("FileNotFoundError")
       ELSE IF ReadFile(fs, ta.filename).kind # "state_dict"
            THEN TaRaise("UnpicklingError")
       ELSE ta' = [ta EXCEPT !.pc = "load_data", !.loaded = ta.filename]
    /\ UNCHANGED <<fs, pickles, clock, writes, pr, gx>>

\* lines 38-40: open and unpickle the test set
LoadTestSet ==
    /\ ta.pc = "load_data"
    /\ IF ta.testing_dataset \notin DOMAIN pickles THEN TaRaise("FileNotFoundError")
       ELSE IF pickles[ta.testing_dataset].kind # "dataset"
            THEN TaRaise("UnpicklingError")
       ELSE ta' = [ta EXCEPT !.pc = "loop",
                             !.images = pickles[ta.testing_dataset].data,
                             !.labels = pickles[ta.testing_dataset].labels]
    /\ UNCHANGED <<fs, pickles, clock, writes, pr, gx>>

\* the gate with a strict comparison
BrightEnoughStrict(b) == b > Threshold

\* line 46: the gate of the attack
BrightEnough(b) == b >= Threshold

\* lines 50-51: the accumulators after one attack
Accumulate(num_successes, total_num_query, outcome) ==
    [num_successes |-> num_successes + outcome.success,
     total_num_query |-> total_num_query + outcome.num_query]

\* lines 44-51: one iteration of the loop, on images[index]
ExamineImage ==
    /\ ta.pc = "loop"
    /\ ta.index < Len(ta.images)
    /\ LET image == ta.images[ta.index + 1]
           label == ta.labels[ta.index + 1]
           mask_type == judge_mask_type("GTSRB", label)
           b == brightness(image, MASK_LIST[mask_type])
           measured == [fn |-> "brightness", index |-> ta.index,
                        arg |-> MASK_LIST[mask_type], label |-> label,
                        success |-> 0, num_query |-> 0]
       IN  IF BrightEnough(b)
           THEN \E outcome \in AttackOutcomes :
                  LET sums == Accumulate(ta.num_successes, ta.total_num_query, outcome)
                      attacked == [fn |-> "attack", index |-> ta.index,
                                   arg |-> POSITION_LIST[mask_type], label |-> label,
                                   success |-> outcome.success,
                                   num_query |-> outcome.num_query]
                  IN  ta' = [ta EXCEPT !.index = @ + 1,
                                       !.num_successes = sums.num_successes,
                                       !.total_num_query = sums.total_num_query,
                                       !.calls = @ \o <<measured, attacked>>]
           ELSE ta' = [ta EXCEPT !.index = @ + 1, !.calls = Append(@, measured)]
    /\ UNCHANGED <<fs, pickles, clock, writes, pr, gx>>

\* line 53, in units of 10^-4
AvgQueries(total_num_query, n) == Round(total_num_query, n, Digits)

\* the success rate reported in place of its complement
RobustnessAsSuccessRate(num_successes, n) == Round(num_successes, n, Digits)

\* the success count not divided by the number of images
RobustnessNotNormalised(num_successes, n) ==
    Pow10(Digits) - Round(num_successes, 1, Digits)

\* line 54, in units of 10^-4
Robustness(num_successes, n) == Pow10(Digits) - Round(num_successes, n, Digits)

\* lines 53-56: the two figures, printed
ComputeReport ==
    /\ ta.pc = "loop"
    /\ ta.index = Len(ta.images)
    /\ IF Len(ta.images) = 0 THEN TaRaise("ZeroDivisionError")
       ELSE ta' = [ta EXCEPT !.pc = "write", !.printed = TRUE,
                    !.avg_queries = AvgQueries(ta.total_num_query, Len(ta.images)),
                    !.robustness = Robustness(ta.num_successes, Len(ta.images))]
    /\ UNCHANGED <<fs, pickles, clock, writes, pr, gx>>

\* line 61: f"./testing_results/results_{filename[6:]}.json"
ReportPath(filename) ==
    ResultsDir \o ResultsPrefix \o SliceFrom(filename, 6) \o DotJson

\* lines 57-62: the report file
WriteReport ==
    /\ ta.pc = "write"
    /\ IF DirName(ReportPath(ta.filename)) \notin DOMAIN fs
       THEN TaRaise("FileNotFoundError") /\ UNCHANGED <<fs, writes>>
       ELSE /\ fs' = WriteFile(fs, ReportPath(ta.filename),
                        [kind |-> "report", by |-> "test_regime_a"])
            /\ writes' = Append(writes, [by |-> "test_regime_a", at |-> clock,
                                         path |-> ReportPath(ta.filename)])
            /\ ta' = [ta EXCEPT !.pc = "done"]
    /\ UNCHANGED <<pickles, clock, pr, gx>>

----------------------------------------------------------------------------
(* andrewnet.py: train_model(args) *)

Procs == {"p1", "p2"}

BatchSize == 64

NumEpoch == 25

\* line 32: the four (trans, adv) variants drawn of every image
Variants == <<<<FALSE, FALSE>>, <<TRUE, TRUE>>, <<FALSE, TRUE>>, <<TRUE, FALSE>>>>

\* --data_fraction and --proportion: floats, held as <<numerator, denominator>>
Fractions == {<<0 - 1, 4>>, <<0, 1>>, <<1, 4>>, <<3, 8>>, <<1, 1>>, <<5, 4>>}

NoArgs ==
    [regime |-> "", data_fraction |-> <<1, 1>>, train_dataset_location |-> "",
     test_dataset_location |-> "", model_to_test |-> None, proportion |-> <<1, 1>>]

\* the frame of a process that was not started
PrOff ==
    [pc |-> "off", args |-> NoArgs, device |-> "", error |-> "",
     images |-> <<>>, num_train |-> 0, indices |-> <<>>, split |-> 0,
     train_idx |-> <<>>, real_num |-> 0, epoch |-> 0, batches |-> <<>>,
     acc |-> 0, loss |-> 0, num_sample |-> 0, drawn |-> <<>>,
     reported |-> FALSE, train_acc |-> 0, train_loss |-> 0, filename |-> None,
     raised_at |-> ""]

\* the frame of a process entering main() with its parsed arguments
PrMain(args, device) == [PrOff EXCEPT !.pc = "main", !.args = args, !.device = device]

PrRaise(p, error) ==
    pr' = [pr EXCEPT ![p].pc = "failed", ![p].error = error, ![p].raised_at = pr[p].pc]

\* the pickled training sets: n images, n labels
TrainSet(n) ==
    [kind |-> "dataset", data |-> [i \in 1..n |-> "image"], labels |-> [i \in 1..n |-> 1]]

\* list(range(n))
range(n) == [i \in 1..n |-> i - 1]

\* a sequence rotated left by shift places
Rotate(seq, shift) ==
    [i \in 1..Len(seq) |-> seq[((i - 1 + shift) % Len(seq)) + 1]]

\* seq[:k], Python's slice: a negative k counts from the end
SlicePrefix(seq, k) ==
    IF k >= 0 THEN SubSeq(seq, 1, Min(k, Len(seq)))
    ELSE SubSeq(seq, 1, Max(0, Len(seq) + k))

\* line 42: int(np.floor(data_fraction * num_train))
Split(data_fraction, num_train) ==
    (data_fraction[1] * num_train) \div data_fraction[2]

\* lines 25-27: open and unpickle the training set
OpenDataset(p) ==
    /\ pr[p].pc = "open_dataset"
    /\ LET location == pr[p].args.train_dataset_location
       IN  IF location \notin DOMAIN pickles THEN PrRaise(p, "FileNotFoundError")
           ELSE IF pickles[location].kind # "dataset"
                THEN PrRaise(p, "UnpicklingError")
           ELSE pr' = [pr EXCEPT ![p].pc = "build",
                                 ![p].images = pickles[location].data]
    /\ UNCHANGED <<fs, pickles, clock, writes, ta, gx>>

\* lines 37-39: len(ConcatDataset(datasets)), one dataset per variant
NumTrain(images) == Len(Variants) * Len(images)

\* lines 42-43: the active subset
TrainIdx(indices, data_fraction) ==
    SlicePrefix(indices, Split(data_fraction, Len(indices)))

\* lines 29-50: the corpus, the shuffled indices and the active subset
BuildCorpus(p) ==
    /\ pr[p].pc = "build"
    /\ \E shift \in 0..MaxShift :
          LET num_train == NumTrain(pr[p].images)
              indices == Rotate(range(num_train), shift)
              train_idx == TrainIdx(indices, pr[p].args.data_fraction)
          IN  pr' = [pr EXCEPT ![p].pc = "epoch",
                               ![p].num_train = num_train,
                               ![p].indices = indices,
                               ![p].split = Split(pr[p].args.data_fraction, num_train),
                               ![p].train_idx = train_idx,
                               ![p].real_num = Len(train_idx)]
    /\ UNCHANGED <<fs, pickles, clock, writes, ta, gx>>

\* SubsetRandomSampler(train_idx): the active indices in a fresh random order
SubsetRandomSampler(train_idx, shift) == Rotate(train_idx, shift)

\* a loader that drops the last, shorter batch (drop_last=True)
RECURSIVE DataLoaderDropLast(_, _)
DataLoaderDropLast(order, batch_size) ==
    IF Len(order) < batch_size THEN <<>>
    ELSE <<SubSeq(order, 1, batch_size)>>
            \o DataLoaderDropLast(SubSeq(order, batch_size + 1, Len(order)), batch_size)

\* DataLoader(batch_size=...): the sampler's indices in consecutive batches,
\* the last one shorter when they do not divide evenly
RECURSIVE DataLoader(_, _)
DataLoader(order, batch_size) ==
    IF order = <<>> THEN <<>>
    ELSE <<SubSeq(order, 1, Min(batch_size, Len(order)))>>
            \o DataLoader(SubSeq(order, Min(batch_size, Len(order)) + 1, Len(order)),
                          batch_size)

\* the checkpoint saved from inside the epoch loop
TrainingCompleteEarly(epoch) == epoch >= 1

\* line 60: range(num_epoch) is exhausted
TrainingComplete(epoch) == epoch = NumEpoch

\* lines 60-65, and the iterator line 66 opens
EpochStart(p) ==
    /\ pr[p].pc = "epoch"
    /\ ~TrainingComplete(pr[p].epoch)
    /\ \E shift \in 0..MaxShift :
          pr' = [pr EXCEPT ![p].pc = "batch",
                           ![p].acc = 0, ![p].loss = 0, ![p].num_sample = 0,
                           ![p].drawn = <<>>, ![p].reported = FALSE,
                           ![p].train_acc = 0, ![p].train_loss = 0,
                           ![p].batches =
                               DataLoader(SubsetRandomSampler(pr[p].train_idx, shift),
                                          BatchSize)]
    /\ UNCHANGED <<fs, pickles, clock, writes, ta, gx>>

\* line 72: how many predictions of a batch can be right
CorrectCounts(len) == {c \in 0..len : c <= 1 \/ c = len}

\* lines 66-74: one batch
TrainBatch(p) ==
    /\ pr[p].pc = "batch"
    /\ pr[p].batches # <<>>
    /\ LET data_batch == Head(pr[p].batches)
       IN  \E correct \in CorrectCounts(Len(data_batch)), batch_loss \in 0..MaxLoss :
              pr' = [pr EXCEPT ![p].batches = Tail(@),
                               ![p].acc = @ + correct,
                               ![p].loss = @ + batch_loss * Len(data_batch),
                               ![p].num_sample = @ + Len(data_batch),
                               ![p].drawn = @ \o data_batch]
    /\ UNCHANGED <<fs, pickles, clock, writes, ta, gx>>

\* lines 75-79: the epoch's figures, in units of 10^-4; `reported` marks the
\* state in which the two figures have just been printed
EpochEnd(p) ==
    /\ pr[p].pc = "batch"
    /\ pr[p].batches = <<>>
    /\ IF pr[p].real_num = 0 THEN PrRaise(p, "ZeroDivisionError")
       ELSE pr' = [pr EXCEPT ![p].pc = "epoch", ![p].reported = TRUE,
                             ![p].train_acc = Round(pr[p].acc, pr[p].real_num, Digits),
                             ![p].train_loss = Round(pr[p].loss, pr[p].real_num, Digits),
                             ![p].epoch = @ + 1]
    /\ UNCHANGED <<fs, pickles, clock, writes, ta, gx>>

\* a timestamp that keeps the fraction of the second
SecondExact(tick) == tick

\* strftime truncates the instant to whole seconds
Second(tick) == tick \div TicksPerSecond

\* lines 81-88: datetime.now() is read and the checkpoint written
SaveCheckpoint(p) ==
    /\ pr[p].pc = "epoch"
    /\ TrainingComplete(pr[p].epoch)
    /\ \E now \in clock..MaxClock :
          LET filename == CheckpointPath(Second(now), NumEpoch)
          IN  /\ clock' = now
              /\ IF DirName(filename) \notin DOMAIN fs
                 THEN PrRaise(p, "FileNotFoundError") /\ UNCHANGED <<fs, writes>>
                 ELSE /\ fs' = WriteFile(fs, filename, StateDict(p))
                      /\ writes' = Append(writes, [by |-> p, at |-> now,
                                                   path |-> filename])
                      /\ pr' = [pr EXCEPT ![p].pc = "done", ![p].filename = filename]
    /\ UNCHANGED <<pickles, ta, gx>>

----------------------------------------------------------------------------
(* andrewnet.py: main() *)

Regimes == {"TRAIN", "TEST_A", "TEST_B", "TEST_C"}

\* the functions test.py defines, with their parameters
TestModule ==
    [test_regime_a |-> <<"testing_dataset", "device", "filename">>,
     main |-> <<>>]

\* test.<name>(*actuals): the attribute is looked up, then the positional
\* arguments are bound to the parameters
CallTest(p, name, actuals) ==
    IF name \notin DOMAIN TestModule
    THEN PrRaise(p, "AttributeError") /\ UNCHANGED ta
    ELSE IF Len(actuals) # Len(TestModule[name])
    THEN PrRaise(p, "TypeError") /\ UNCHANGED ta
    ELSE /\ pr' = [pr EXCEPT ![p].pc = "in_test"]
         /\ ta' = TaCall(actuals[1], actuals[2], actuals[3])

\* lines 136-152: the dispatch on args.regime
Main(p) ==
    /\ pr[p].pc = "main"
    /\ LET args == pr[p].args
           DEVICE == pr[p].device
       IN  CASE args.regime = "TRAIN" ->
                  /\ pr' = [pr EXCEPT ![p].pc = "open_dataset"]
                  /\ UNCHANGED ta
             [] args.regime = "TEST_A" ->
                  CallTest(p, "test_regime_a",
                           <<args.test_dataset_location, DEVICE, args.proportion,
                             args.model_to_test>>)
             [] args.regime = "TEST_B" ->
                  CallTest(p, "test_regime_b",
                           <<args.test_dataset_location, DEVICE, args.model_to_test>>)
             [] args.regime = "TEST_C" ->
                  CallTest(p, "test_regime_c",
                           <<args.train_dataset_location, args.test_dataset_location,
                             DEVICE, args.proportion, args.model_to_test>>)
    /\ UNCHANGED <<fs, pickles, clock, writes, gx>>

----------------------------------------------------------------------------
(* shadows_model/model.py: gen_extra_data *)

GxIdle ==
    [pc |-> "idle", y_train |-> <<>>, n_each |-> 0, randomize_var |-> 0,
     i |-> 0, i_n |-> 0, x_arr |-> <<>>, y_arr |-> <<>>, len_arr |-> <<>>]

\* the frame on entry; x_train[i] is known by its position i
GxCall(y_train, n_each, randomize_var) ==
    [GxIdle EXCEPT !.pc = "loop", !.y_train = y_train, !.n_each = n_each,
                   !.randomize_var = randomize_var]

\* np.float32 of a class label: exact, labels being integers below 2^24
Float32(v) == v

\* lines 146-150: one transformed copy of x_train[i], and its label
GenTransform ==
    /\ gx.pc = "loop"
    /\ gx.i < Len(gx.y_train)
    /\ gx.i_n < gx.n_each
    /\ gx' = [gx EXCEPT !.x_arr = Append(@, [src |-> gx.i, copy |-> gx.i_n]),
                        !.y_arr = Append(@, gx.y_train[gx.i + 1]),
                        !.i_n = @ + 1]
    /\ UNCHANGED <<fs, pickles, clock, writes, pr, ta>>

\* lines 144-145: the inner loop is exhausted, the outer one moves on
GenNextImage ==
    /\ gx.pc = "loop"
    /\ gx.i < Len(gx.y_train)
    /\ gx.i_n = gx.n_each
    /\ gx' = [gx EXCEPT !.i = @ + 1, !.i_n = 0]
    /\ UNCHANGED <<fs, pickles, clock, writes, pr, ta>>

\* np.random.shuffle(np.arange(n)): the permutations drawn are the rotations
\* of 0..n-1 and their reversals
Reverse(seq) == [k \in 1..Len(seq) |-> seq[Len(seq) + 1 - k]]

ShuffledArange(n) ==
    {Rotate(range(n), shift) : shift \in 0..Max(n - 1, 0)}
        \cup {Reverse(Rotate(range(n), shift)) : shift \in 0..Max(n - 1, 0)}

\* the assignment done in place, element by element, reading values through
\* the array being overwritten
RECURSIVE AssignInPlace(_, _, _)
AssignInPlace(arr, index, k) ==
    IF k > Len(index) THEN arr
    ELSE AssignInPlace([arr EXCEPT ![index[k] + 1] = arr[k]], index, k + 1)

AssignAtAliased(arr, index, values) == AssignInPlace(arr, index, 1)

\* arr[index] = values, numpy's assignment through an index array: values
\* is copied first when it shares memory with arr, then values[k] is stored
\* at arr[index[k]]
AssignAt(arr, index, values) ==
    [j \in 1..Len(arr) |->
        IF \E k \in 1..Len(index) : index[k] = j - 1
        THEN values[CHOOSE k \in 1..Len(index) :
                      /\ index[k] = j - 1
                      /\ \A m \in 1..Len(index) : index[m] = j - 1 => m <= k]
        ELSE arr[j]]

\* lines 152-161: the arrays, shuffled when randomize_var == 1
GenReturn ==
    /\ gx.pc = "loop"
    /\ gx.i = Len(gx.y_train)
    /\ LET x_arr == gx.x_arr
           y_arr == [k \in 1..Len(gx.y_arr) |-> Float32(gx.y_arr[k])]
       IN  IF gx.randomize_var = 1
           THEN \E len_arr \in ShuffledArange(Len(y_arr)) :
                   gx' = [gx EXCEPT !.pc = "done", !.len_arr = len_arr,
                                    !.x_arr = AssignAt(x_arr, len_arr, x_arr),
                                    !.y_arr = AssignAt(y_arr, len_arr, y_arr)]
           ELSE gx' = [gx EXCEPT !.pc = "done", !.y_arr = y_arr]
    /\ UNCHANGED <<fs, pickles, clock, writes, pr, ta>>

----------------------------------------------------------------------------
(* The initial states *)

OldCheckpoint(second) == BaseName(CheckpointPath(second, NumEpoch))

\* a directory holding the given checkpoints and other files
Directory(seconds, others) ==
    [name \in {OldCheckpoint(second) : second \in seconds} \cup others |->
        IF name \in others THEN OtherFile ELSE StateDict("old")]

FileSystem(checkpoints, cwd) ==
    [dir \in {CwdDir, CheckpointsDir, ResultsDir} |->
        IF dir = CheckpointsDir THEN checkpoints
        ELSE IF dir = CwdDir THEN cwd
        ELSE NoFiles]

Pickles(train, test) ==
    [location \in {"train.pkl", "test.pkl", "corrupt.pkl"} |->
        IF location = "train.pkl" THEN train
        ELSE IF location = "test.pkl" THEN test
        ELSE CorruptPickle]

Locations(good) == {good, "missing.pkl", "corrupt.pkl"}

TrainSizes == {0, 1, MaxTrainImages}

\* the command lines: each regime with the options it reads varied
CommandLines ==
    [regime : {"TRAIN"}, data_fraction : Fractions,
     train_dataset_location : Locations("train.pkl"),
     test_dataset_location : {"test.pkl"}, model_to_test : {None},
     proportion : {<<1, 1>>}]
    \cup
    [regime : Regimes \ {"TRAIN"}, data_fraction : {<<1, 1>>},
     train_dataset_location : {"train.pkl"},
     test_dataset_location : Locations("test.pkl"),
     model_to_test : {None, CheckpointPath(10, NumEpoch)},
     proportion : {<<1, 1>>, <<1, 2>>}]

\* python andrewnet.py <regime> [options]
InitMain ==
    /\ \E args \in CommandLines :
          pr = [p \in Procs |-> IF p = "p1" THEN PrMain(args, "cpu") ELSE PrOff]
    /\ ta = TaIdle
    /\ fs = FileSystem(Directory({10}, {}), NoFiles)
    /\ \E n \in TrainSizes, test \in TestSets :
          /\ test.data = <<[g \in MaskTypes |-> IF g = "octagon" THEN Threshold ELSE Threshold - 1]>>
          /\ test.labels = <<14>>
          /\ pickles = Pickles(TrainSet(n), test)

\* the checkpoints directory and the working directory test_regime_a may find
EvalFileSystems ==
    {FileSystem(Directory({}, {}), NoFiles),
     FileSystem(Directory({9, 10}, {}), NoFiles),
     FileSystem(Directory({9, 10}, {}), Directory({10}, {})),
     FileSystem(Directory({9}, {OtherName}), Directory({9}, {OtherName}))}

\* test.test_regime_a(testing_dataset, device, filename), called directly:
\* every test set where the checkpoint loads from the working directory,
\* the test sets of at most one image elsewhere
InitDirect ==
    /\ pr = [p \in Procs |-> PrOff]
    /\ \E testing_dataset \in Locations("test.pkl"),
          filename \in {None, CheckpointPath(10, NumEpoch), OldCheckpoint(10)},
          test \in TestSets :
          /\ ta = TaCall(testing_dataset, "cpu", filename)
          /\ fs \in EvalFileSystems
          /\ pickles = Pickles(TrainSet(1), test)
          /\ \/ Len(test.data) <= 1
             \/ /\ testing_dataset = "test.pkl"
                /\ filename # CheckpointPath(10, NumEpoch)
                /\ fs = FileSystem(Directory({9, 10}, {}), Directory({10}, {}))

Init ==
    /\ clock = 0
    /\ writes = <<>>
    /\ gx = GxIdle
    /\ (InitMain \/ InitDirect)

\* two processes, each python andrewnet.py TRAIN, on one ./checkpoints/
InitConc ==
    /\ clock = 0
    /\ writes = <<>>
    /\ gx = GxIdle
    /\ ta = TaIdle
    /\ fs = FileSystem(NoFiles, NoFiles)
    /\ pickles = Pickles(TrainSet(1), CorruptPickle)
    /\ pr = [p \in Procs |->
               PrMain([NoArgs EXCEPT !.regime = "TRAIN", !.data_fraction = <<1, 4>>,
                                     !.train_dataset_location = "train.pkl",
                                     !.test_dataset_location = "test.pkl"],
                      "cpu")]

\* gen_extra_data(x_train, y_train, n_each, ..., randomize_var)
InitGen ==
    /\ clock = 0
    /\ writes = <<>>
    /\ ta = TaIdle
    /\ pr = [p \in Procs |-> PrOff]
    /\ fs = FileSystem(NoFiles, NoFiles)
    /\ pickles = Pickles(TrainSet(1), CorruptPickle)
    /\ \E n_train \in 0..MaxGenImages, n_each \in 0..MaxEach,
          randomize_var \in {0, 1, 2} :
          \E y_train \in [1..n_train -> Labels] :
             gx = GxCall(y_train, n_each, randomize_var)

----------------------------------------------------------------------------
(* The specifications *)

\* one step of a process running andrewnet.py
NextTrain ==
    \E p \in Procs :
        \/ Main(p)
        \/ OpenDataset(p)
        \/ BuildCorpus(p)
        \/ EpochStart(p)
        \/ TrainBatch(p)
        \/ EpochEnd(p)
        \/ SaveCheckpoint(p)

\* one step of test_regime_a
NextTest ==
    \/ ResolveCheckpoint
    \/ LoadModel
    \/ LoadTestSet
    \/ ExamineImage
    \/ ComputeReport
    \/ WriteReport

\* one step of gen_extra_data
NextGen ==
    \/ GenTransform
    \/ GenNextImage
    \/ GenReturn

Next == NextTrain \/ NextTest

\* one run: the command line, or a direct call of test_regime_a
Spec == Init /\ [][Next]_vars

\* concurrent training runs
SpecConc == InitConc /\ [][NextTrain]_vars

\* a call of gen_extra_data
SpecGen == InitGen /\ [][NextGen]_vars

----------------------------------------------------------------------------
(* Claims about test_regime_a *)

\* the attacks made so far, in order
AttackCalls == SelectSeq(ta.calls, LAMBDA c : c.fn = "attack")

RECURSIVE SumQueries(_)
SumQueries(calls) ==
    IF calls = <<>> THEN 0 ELSE Head(calls).num_query + SumQueries(Tail(calls))

RECURSIVE SumSuccesses(_)
SumSuccesses(calls) ==
    IF calls = <<>> THEN 0 ELSE Head(calls).success + SumSuccesses(Tail(calls))

\* the brightness of test image i (from 1) under the mask of its own group
OwnBrightness(i) == ta.images[i][judge_mask_type("GTSRB", ta.labels[i])]

\* x, in units of 10^-4, is num/den to 4 decimal places
ToFourPlaces(x, num, den) == 2 * Abs(den * x - Pow10(Digits) * num) <= den

\* C1: once the report is printed, avg_queries is (the sum of the query
\* counts of the attacked images) / N and robustness is 1 - (the number of
\* successful attacks) / N, each to 4 decimal places, N being the size of the
\* whole test set; a test set with every image below the threshold reports
\* robustness exactly 1.0 and avg_queries exactly 0.0.
C1_ReportFigures ==
    ta.printed =>
        LET N == Len(ta.images)
        IN  /\ N > 0
            /\ ToFourPlaces(ta.avg_queries, SumQueries(AttackCalls), N)
            /\ ToFourPlaces(Pow10(Digits) - ta.robustness, SumSuccesses(AttackCalls), N)
            /\ (\A i \in 1..N : OwnBrightness(i) < Threshold) =>
                  /\ ta.robustness = Pow10(Digits)
                  /\ ta.avg_queries = 0

\* a report over two images, one skipped as too dark, one attacked with
\* success in one query: robustness 0.5, avg_queries 0.5
C1_Witness ==
    /\ ta.printed
    /\ Len(ta.images) = 2
    /\ Len(AttackCalls) = 1
    /\ SumQueries(AttackCalls) = 1
    /\ SumSuccesses(AttackCalls) = 1
    /\ ta.robustness = 5000
    /\ ta.avg_queries = 5000

\* what line 46 to 49 must have called for test images 0..k-1: brightness
\* under the group's reference mask for every image, in order, and attack
\* with the group's positions exactly for those measuring >= 120
RECURSIVE ExpectedCalls(_)
ExpectedCalls(k) ==
    IF k = 0 THEN <<>>
    ELSE LET label == ta.labels[k]
             group == judge_mask_type("GTSRB", label)
         IN  ExpectedCalls(k - 1)
               \o <<<<"brightness", k - 1, MASK_LIST[group], label>>>>
               \o (IF ta.images[k][group] >= 120
                   THEN <<<<"attack", k - 1, POSITION_LIST[group], label>>>>
                   ELSE <<>>)

\* C2: the attack is invoked on a test image if and only if its brightness
\* under its mask group's reference mask is >= 120 (119: never, 120 and above:
\* always), and every image is examined exactly once, in dataset order, with
\* the mask and the positions of the group judge_mask_type gives its label.
C2_AttackGate ==
    /\ [k \in 1..Len(ta.calls) |->
          <<ta.calls[k].fn, ta.calls[k].index, ta.calls[k].arg, ta.calls[k].label>>]
         = ExpectedCalls(ta.index)
    /\ ta.printed => ta.index = Len(ta.images)

\* a finished loop over an image measuring 119 and one measuring exactly 120
C2_Witness ==
    /\ ta.printed
    /\ Len(ta.images) = 2
    /\ OwnBrightness(1) = 119
    /\ OwnBrightness(2) = 120
    /\ Len(AttackCalls) = 1
    /\ AttackCalls[1].index = 1

\* C9: throughout the loop and in the report, the success count lies between
\* 0 and the number of images processed so far and the query count is
\* non-negative; the reported robustness lies in [0, 1] and avg_queries >= 0.
C9_CountsInRange ==
    /\ 0 <= ta.num_successes
    /\ ta.num_successes <= ta.index
    /\ ta.total_num_query >= 0
    /\ ta.printed =>
          /\ 0 <= ta.robustness
          /\ ta.robustness <= Pow10(Digits)
          /\ ta.avg_queries >= 0

\* a report in which every one of two images was attacked with success
C9_Witness ==
    /\ ta.printed
    /\ Len(ta.images) = 2
    /\ ta.num_successes = 2
    /\ ta.total_num_query > 0
    /\ ta.robustness = 0

\* the name that sorts last in ./checkpoints/
LatestName == LET files == sorted(listdir(fs, CheckpointsDir)) IN files[Len(files)]

\* C4 (as claimed): called with no model path, the checkpoint loaded is the
\* file in ./checkpoints/ whose name is lexicographically last; with an
\* explicit path, exactly that path is loaded.
C4_LoadsLatestCheckpoint ==
    /\ (ta.given = None /\ ta.loaded # None) =>
          ta.loaded = CheckpointsDir \o LatestName
    /\ (ta.given = None /\ listdir(fs, CheckpointsDir) # {}
          /\ Exists(fs, CheckpointsDir \o LatestName)
          /\ ReadFile(fs, CheckpointsDir \o LatestName).kind = "state_dict") =>
          ~(ta.pc = "failed" /\ ta.raised_at = "load_model")
    /\ (ta.given # None /\ ta.loaded # None) => ta.loaded = ta.given

----------------------------------------------------------------------------
(* Claims about main *)

\* C3 (as claimed): regime TEST_A dispatches to test_regime_a and the call is
\* accepted, the dataset path, the device and the model path each arriving
\* in the parameter meant for it.
C3_TestACallAccepted ==
    \A p \in Procs :
        (pr[p].args.regime = "TEST_A" /\ pr[p].pc \notin {"off", "main"}) =>
            /\ pr[p].pc = "in_test"
            /\ ta.pc # "idle"
            /\ ta.testing_dataset = pr[p].args.test_dataset_location
            /\ ta.device = pr[p].device
            /\ ta.given = pr[p].args.model_to_test

\* C5 (as claimed): regime TEST_B or TEST_C ends in an explicit "not
\* implemented" failure, and nothing is written.
C5_NotImplemented ==
    \A p \in Procs :
        (pr[p].args.regime \in {"TEST_B", "TEST_C"} /\ pr[p].pc \notin {"off", "main"}) =>
            /\ pr[p].pc = "failed"
            /\ pr[p].error = "NotImplementedError"
            /\ writes = <<>>

----------------------------------------------------------------------------
(* Claims about failed runs *)

\* C7: a checkpoint is written only after the training set was loaded and all
\* 25 epochs completed; a report only after the checkpoint was resolved and
\* loaded, the test set loaded and every image processed; a run that failed
\* has written neither.
C7_NoPartialState ==
    /\ \A k \in 1..Len(writes) :
          LET who == writes[k].by
          IN  IF who \in Procs
              THEN /\ pr[who].args.train_dataset_location \in DOMAIN pickles
                   /\ pr[who].images = pickles[pr[who].args.train_dataset_location].data
                   /\ pr[who].epoch = 25
                   /\ pr[who].reported
                   /\ pr[who].pc = "done"
                   /\ DirName(writes[k].path) = CheckpointsDir
              ELSE /\ ta.loaded # None
                   /\ Exists(fs, ta.loaded)
                   /\ ta.testing_dataset \in DOMAIN pickles
                   /\ ta.images = pickles[ta.testing_dataset].data
                   /\ ta.index = Len(ta.images)
                   /\ ta.printed
                   /\ ta.pc = "done"
                   /\ DirName(writes[k].path) = ResultsDir
    /\ (ta.pc = "failed" \/ \E p \in Procs : pr[p].pc = "failed") => writes = <<>>
    /\ Len(writes) <= 1

\* a training run that failed on its dataset file, having written nothing
C7_Witness ==
    /\ pr["p1"].pc = "failed"
    /\ pr["p1"].raised_at = "open_dataset"
    /\ pr["p1"].error \in {"FileNotFoundError", "UnpicklingError"}
    /\ writes = <<>>
    /\ \A dir \in DOMAIN fs : \A name \in DOMAIN fs[dir] : fs[dir][name].by = "old"

----------------------------------------------------------------------------
(* Claims about train_model *)

\* the corpus of process p is built
Built(p) ==
    \/ pr[p].pc \in {"epoch", "batch", "done"}
    \/ pr[p].pc = "failed" /\ pr[p].raised_at \in {"epoch", "batch"}

Elements(seq) == {seq[k] : k \in 1..Len(seq)}

\* the corpus has 4 * n examples and the indices are one permutation of them
CorpusIndexed(p) ==
    /\ pr[p].num_train = 4 * Len(pr[p].images)
    /\ Len(pr[p].indices) = pr[p].num_train
    /\ Elements(pr[p].indices) = 0..(pr[p].num_train - 1)
    /\ pr[p].real_num = Len(pr[p].train_idx)

\* in every epoch each active index is drawn exactly once and no other index
\* is drawn, in batches of at most 64; the samples processed number the
\* active-subset count the figures are divided by; the accuracy is in [0, 1]
EpochSampling(p) ==
    /\ pr[p].epoch <= 25
    /\ \A k \in 1..Len(pr[p].batches) :
          Len(pr[p].batches[k]) >= 1 /\ Len(pr[p].batches[k]) <= 64
    /\ Cardinality(Elements(pr[p].drawn)) = Len(pr[p].drawn)
    /\ Elements(pr[p].drawn) \subseteq Elements(pr[p].train_idx)
    /\ pr[p].num_sample = Len(pr[p].drawn)
    /\ pr[p].reported =>
          /\ Elements(pr[p].drawn) = Elements(pr[p].train_idx)
          /\ pr[p].num_sample = pr[p].real_num
          /\ pr[p].real_num > 0
          /\ 0 <= pr[p].acc /\ pr[p].acc <= pr[p].real_num
          /\ 0 <= pr[p].train_acc /\ pr[p].train_acc <= Pow10(Digits)

\* floor(data_fraction * 4 * n)
ActiveCount(p) ==
    (pr[p].args.data_fraction[1] * 4 * Len(pr[p].images))
        \div pr[p].args.data_fraction[2]

\* C10 (as claimed): the active subset is the first floor(data_fraction * 4n)
\* entries of the shuffled permutation, whatever data_fraction is.
C10_Original ==
    \A p \in Procs :
        Built(p) =>
            /\ CorpusIndexed(p)
            /\ pr[p].real_num = ActiveCount(p)
            /\ pr[p].train_idx = SubSeq(pr[p].indices, 1, ActiveCount(p))
            /\ EpochSampling(p)

\* C10 (amended): the active subset is the slice indices[:floor(data_fraction
\* * 4n)]: its first floor(data_fraction * 4n) entries when 0 <= data_fraction
\* <= 1, all 4n entries when data_fraction > 1, and all but the last
\* -floor(data_fraction * 4n) entries when data_fraction < 0; the rest of the
\* claim holds as stated.
C10_Amended ==
    \A p \in Procs :
        Built(p) =>
            LET data_fraction == pr[p].args.data_fraction
                num_train == 4 * Len(pr[p].images)
            IN  /\ CorpusIndexed(p)
                /\ (0 <= data_fraction[1] /\ data_fraction[1] <= data_fraction[2]) =>
                      /\ pr[p].real_num = ActiveCount(p)
                      /\ pr[p].train_idx = SubSeq(pr[p].indices, 1, ActiveCount(p))
                /\ data_fraction[1] > data_fraction[2] =>
                      pr[p].train_idx = pr[p].indices
                /\ data_fraction[1] < 0 =>
                      pr[p].train_idx =
                          SubSeq(pr[p].indices, 1, Max(0, num_train + ActiveCount(p)))
                /\ EpochSampling(p)

\* the last epoch of a run with data_fraction 3/8 whose product with the
\* corpus size is not whole, every active index drawn and every prediction
\* right
C10_Witness ==
    /\ pr["p1"].reported
    /\ pr["p1"].epoch = 25
    /\ pr["p1"].args.data_fraction = <<3, 8>>
    /\ 8 * pr["p1"].real_num < 3 * pr["p1"].num_train
    /\ pr["p1"].real_num > 1
    /\ pr["p1"].train_acc = 10000

\* the checkpoints process p has written
WritesBy(p) == SelectSeq(writes, LAMBDA w : w.by = p)

\* C6 (as claimed): each invocation writes exactly one checkpoint file, no
\* invocation overwrites a checkpoint written by another, and the name is
\* different for every save.
C6_Original ==
    /\ \A p \in Procs : pr[p].pc = "done" => Len(WritesBy(p)) = 1
    /\ \A i, j \in 1..Len(writes) : i # j => writes[i].path # writes[j].path
    /\ \A p \in Procs :
          pr[p].pc = "done" =>
              /\ Exists(fs, pr[p].filename)
              /\ ReadFile(fs, pr[p].filename).by = p

\* C6 (amended): an invocation that completes writes exactly one checkpoint
\* file, one that has not completed none; two saves have the same name exactly
\* when they are made within the same clock second, and then the later one
\* replaces the earlier checkpoint; saves made in different seconds never
\* overwrite each other.
C6_Amended ==
    /\ \A p \in Procs : Len(WritesBy(p)) = (IF pr[p].pc = "done" THEN 1 ELSE 0)
    /\ \A i, j \in 1..Len(writes) :
          i # j =>
              ((writes[i].path = writes[j].path)
                 <=> (writes[i].at \div TicksPerSecond = writes[j].at \div TicksPerSecond))
    /\ \A i \in 1..Len(writes) :
          /\ Exists(fs, writes[i].path)
          /\ LET later == {j \in (i + 1)..Len(writes) :
                             writes[j].at \div TicksPerSecond
                               = writes[i].at \div TicksPerSecond}
             IN  ReadFile(fs, writes[i].path).by =
                    (IF later = {} THEN writes[i].by
                     ELSE writes[CHOOSE j \in later : \A m \in later : m <= j].by)

\* two runs that saved at different instants of one second: one file is left
C6_Witness ==
    /\ \A p \in Procs : pr[p].pc = "done"
    /\ Len(writes) = 2
    /\ writes[1].at < writes[2].at
    /\ writes[1].path = writes[2].path
    /\ ReadFile(fs, writes[1].path).by = writes[2].by
    /\ Cardinality(listdir(fs, CheckpointsDir)) = 1

----------------------------------------------------------------------------
(* Claims about gen_extra_data *)

\* C8: gen_extra_data returns n_train * n_each images and as many labels,
\* input i contributing n_each outputs that carry y_train[i]; unshuffled, the
\* outputs are in input order; with randomize_var = 1 images and labels are
\* rearranged by one shared permutation: the output is a permutation of the
\* unshuffled output and every image still carries its input's label.
C8_GenExtraData ==
    gx.pc = "done" =>
        LET n_train == Len(gx.y_train)
            total == n_train * gx.n_each
            copies == {[src |-> i, copy |-> c] :
                          i \in 0..(n_train - 1), c \in 0..(gx.n_each - 1)}
        IN  /\ Len(gx.x_arr) = total
            /\ Len(gx.y_arr) = total
            /\ \A i \in 0..(n_train - 1) :
                  Cardinality({k \in 1..Len(gx.x_arr) : gx.x_arr[k].src = i}) = gx.n_each
            /\ \A k \in 1..Len(gx.x_arr) :
                  /\ k <= Len(gx.y_arr)
                  /\ gx.y_arr[k] = gx.y_train[gx.x_arr[k].src + 1]
            /\ gx.randomize_var # 1 =>
                  \A k \in 1..Len(gx.x_arr) :
                      /\ gx.x_arr[k] = [src |-> (k - 1) \div gx.n_each,
                                        copy |-> (k - 1) % gx.n_each]
                      /\ gx.y_arr[k] = gx.y_train[((k - 1) \div gx.n_each) + 1]
            /\ gx.randomize_var = 1 => Elements(gx.x_arr) = copies

\* a shuffled result of four outputs whose first image comes from the second
\* input, the two inputs having different labels
C8_Witness ==
    /\ gx.pc = "done"
    /\ gx.randomize_var = 1
    /\ Len(gx.x_arr) = 4
    /\ gx.x_arr[1].src = 1
    /\ gx.y_train[1] # gx.y_train[2]
    /\ gx.y_arr[1] = gx.y_train[2]

=============================================================================
